---- MODULE Spec2Model ----
(***************************************************************************)
(* SkyWhisper: the celestial visibility tool                               *)
(* (src/src/mastra/tools/celestialVisibilityTool.ts) and the two-step      *)
(* Telegram workflow (src/src/mastra/workflows/celestialTelegramWorkflow.ts)*)
(*                                                                         *)
(* Conventions.                                                            *)
(*   - A nullable value is a sequence: <<>> is null, <<v>> is the value v. *)
(*   - A Date is a number of minutes since a local midnight.               *)
(*   - Altitude, azimuth and magnitude are integers standing for the       *)
(*     doubles of the code; only their order and sign are used.            *)
(*   - An illumination percentage is kept in steps of 1/IllumScale of a    *)
(*     percent, so that values between the integer thresholds exist.       *)
(*   - A template string is a record: kind names the template, hours the   *)
(*     toFixed(1) number it embeds (in tenths, -1 when it embeds none) and *)
(*     times the formatTime results it embeds, in order.                   *)
(*   - The astronomy library is an oracle: each call's outcome is an input.*)
(***************************************************************************)
EXTENDS Integers, Sequences, FiniteSets, TLC

VARIABLES
    call,             \* getCelestialBodyInfo alone: the arguments and the library's answers
    info,             \* getCelestialBodyInfo alone: the call's result, null before the call
    pc,               \* execute: "idle", "loop" (the for loop), "done" (returned)
    observationDate,  \* execute: the parsed observation time
    celestialBodies,  \* execute: the array being built, then sorted
    summary,          \* execute: the summary string, null until computed
    errorLog,         \* execute: the logger.error calls made, as <<what, body name>>
    illumIn,          \* getMoonPhaseDescription alone: the argument
    phaseOut,         \* getMoonPhaseDescription alone: the returned label, or null
    wfPc,             \* workflow run: position
    wfInput,          \* workflow run: the trigger's input data
    env,              \* workflow run: process.env.TELEGRAM_BOT_TOKEN (nullable)
    agentOut,         \* workflow run: output of the use-celestial-agent step (nullable)
    generateCalls,    \* workflow run: number of celestialAgent.generate calls
    generated,        \* workflow run: how the generate call settled (nullable)
    requests,         \* workflow run: the sendMessage requests issued, in order
    sendOut,          \* workflow run: output of the send-telegram-reply step (nullable)
    wfError,          \* workflow run: the error that failed the run (nullable)
    viewIn,           \* getBestViewingTime alone: the arguments
    viewOut,          \* getBestViewingTime alone: the returned string, null before the call
    maxAttempts,      \* waitForPort: the parameter maxAttempts
    attempts,         \* waitForPort: the closure's counter
    probe,            \* waitForPort: "uncalled", "inflight" (an http.get is pending),
                      \*   "timer" (setTimeout(checkPort) is pending) or "none"
    promise,          \* waitForPort: "pending", "resolved" or "rejected"
    probeLog,         \* waitForPort: how each finished http.get ended, in order
    settleCalls,      \* waitForPort: number of resolve() and reject() calls made
    mainPc,           \* start-render.js: "idle" (not run), "start", "waiting" (at the await),
                      \*   "running" (main returned) or "exited" (main called process.exit)
    app,              \* start-render.js: the application child: "none", "running", "exited"
    inngest,          \* start-render.js: the Inngest child: "none", "running", "exited"
    spawned,          \* start-render.js: the children spawned, in order
    killed,           \* start-render.js: the children that were sent kill()
    parentExit        \* start-render.js: the code given to process.exit (nullable)

toolVars == <<pc, observationDate, celestialBodies, summary, errorLog>>
bodyVars == <<call, info>>
phaseVars == <<illumIn, phaseOut>>
wfVars == <<wfPc, wfInput, env, agentOut, generateCalls, generated, requests, sendOut, wfError>>
viewVars == <<viewIn, viewOut>>
waitVars == <<maxAttempts, attempts, probe, promise, probeLog, settleCalls>>
startVars == <<mainPc, app, inngest, spawned, killed, parentExit>>
vars == <<call, info, pc, observationDate, celestialBodies, summary, errorLog,
          illumIn, phaseOut,
          wfPc, wfInput, env, agentOut, generateCalls, generated, requests, sendOut, wfError,
          viewIn, viewOut,
          maxAttempts, attempts, probe, promise, probeLog, settleCalls,
          mainPc, app, inngest, spawned, killed, parentExit>>

----------------------------------------------------------------------------
(* Nullable values *)

NULL == <<>>

Some(v) == <<v>>

----------------------------------------------------------------------------
(* Bounds of the model *)

\* Altitudes the oracle answers with are MinAltitude..MaxAlt degrees.
MaxAlt == 1

MinAltitude == 0 - 1

\* In one execute call at most this many bodies have a library call that throws.
MaxFailures == 1

\* Illumination percentages are multiples of 1/IllumScale percent.
IllumScale == 4

----------------------------------------------------------------------------
(* Program constants *)

MinutesPerHour == 60

MinutesPerDay == 24 * MinutesPerHour

\* The limitDays argument of both SearchRiseSet calls.
SearchDays == 2

\* The bodies array of execute.
BodiesClassical == <<"Sun", "Moon", "Mercury", "Venus", "Mars", "Jupiter", "Saturn">>

Bodies == <<"Sun", "Moon", "Mercury", "Venus", "Mars", "Jupiter", "Saturn", "Uranus", "Neptune">>

BodyNames == {Bodies[i] : i \in 1..Len(Bodies)}

----------------------------------------------------------------------------
(* Template strings *)

Text(kind, hours, times) == [kind |-> kind, hours |-> hours, times |-> times]

NoHours == 0 - 1

\* Number.prototype.toFixed(1) of a number of hours, given in minutes: tenths of an hour.
ToFixed1(minutes) == (minutes * 10 + (MinutesPerHour \div 2)) \div MinutesPerHour

----------------------------------------------------------------------------
(* Pure functions of celestialVisibilityTool.ts *)

\* Date.prototype.getHours: the local hour 0..23 of an instant.
getHours(t) == (t % MinutesPerDay) \div MinutesPerHour

\* toLocaleTimeString('en-US', 2-digit hour and minute, hour12): "hh:mm AM|PM".
\* The day of the instant is lost.
ClockText(t) ==
    LET h == getHours(t)
    IN  [hh |-> IF h % 12 = 0 THEN 12 ELSE h % 12,
         mm |-> t % MinutesPerHour,
         ampm |-> IF h < 12 THEN "AM" ELSE "PM"]

formatTime(date) == IF date = NULL THEN NULL ELSE Some(ClockText(date[1]))

getMoonPhaseDescriptionOffByOne(illumination) ==
    IF illumination < 1 * IllumScale THEN "New Moon"
    ELSE IF illumination < 25 * IllumScale THEN "Waxing Crescent"
    ELSE IF illumination < 35 * IllumScale THEN "First Quarter"
    ELSE IF illumination < 65 * IllumScale THEN "Waxing Gibbous"
    ELSE IF illumination <= 75 * IllumScale THEN "Full Moon"
    ELSE IF illumination < 85 * IllumScale THEN "Waning Gibbous"
    ELSE IF illumination < 99 * IllumScale THEN "Waning Crescent"
    ELSE "Full Moon"

getMoonPhaseDescription(illumination) ==
    IF illumination < 1 * IllumScale THEN "New Moon"
    ELSE IF illumination < 25 * IllumScale THEN "Waxing Crescent"
    ELSE IF illumination < 35 * IllumScale THEN "First Quarter"
    ELSE IF illumination < 65 * IllumScale THEN "Waxing Gibbous"
    ELSE IF illumination < 75 * IllumScale THEN "Full Moon"
    ELSE IF illumination < 85 * IllumScale THEN "Waning Gibbous"
    ELSE IF illumination < 99 * IllumScale THEN "Waning Crescent"
    ELSE "Full Moon"

SunWarning == "NEVER view the Sun directly through a telescope without proper solar filters!"

getBestViewingTimeNoonEvening(body, rise, set, transit, now, altitude) ==
    IF rise = NULL \/ set = NULL THEN Text("Not visible in the next 24 hours", NoHours, <<>>)
    ELSE
    LET riseTime == rise[1]
        setTime == set[1]
        nowTime == now
    IN  IF body = "Sun" THEN Text(SunWarning, NoHours, <<>>)
        ELSE IF body = "Moon" THEN
            IF nowTime >= riseTime /\ nowTime <= setTime THEN
                Text("Currently visible! Best viewing: {t} (when highest in sky)",
                     NoHours, <<formatTime(transit)>>)
            ELSE IF nowTime < riseTime THEN
                Text("Will rise in {h} hours at {t}",
                     ToFixed1(riseTime - nowTime), <<formatTime(rise)>>)
            ELSE Text("Already set. Next rise: {t} tomorrow", NoHours, <<formatTime(rise)>>)
        ELSE IF nowTime >= riseTime /\ nowTime <= setTime /\ altitude > 0 THEN
            LET hoursRemaining == setTime - nowTime
            IN  IF hoursRemaining > 2 * MinutesPerHour THEN
                    Text("Currently visible! Observe within the next {h} hours. Best: {t}",
                         ToFixed1(hoursRemaining), <<formatTime(transit)>>)
                ELSE Text("Currently visible but setting soon (in {h} hours)",
                          ToFixed1(hoursRemaining), <<>>)
        ELSE IF nowTime < riseTime THEN
            LET hoursUntil == riseTime - nowTime
                riseHour == getHours(riseTime)
            IN  IF riseHour >= 20 \/ riseHour <= 4 THEN
                    Text("Morning object: Rises at {t} ({h} hours from now). Best viewing: 1-2 hours after rise.",
                         ToFixed1(hoursUntil), <<formatTime(rise)>>)
                ELSE IF riseHour >= 5 /\ riseHour <= 11 THEN
                    Text("Not visible tonight. Rises during daytime at {t}.",
                         NoHours, <<formatTime(rise)>>)
                ELSE
                    Text("Evening object: Rises at {t} ({h} hours from now). Best viewing: around {t}.",
                         ToFixed1(hoursUntil), <<formatTime(rise), formatTime(transit)>>)
        ELSE Text("Already set for today. Next visible: {t} tomorrow",
                  NoHours, <<formatTime(rise)>>)

getBestViewingTime(body, rise, set, transit, now, altitude) ==
    IF rise = NULL \/ set = NULL THEN Text("Not visible in the next 24 hours", NoHours, <<>>)
    ELSE
    LET riseTime == rise[1]
        setTime == set[1]
        nowTime == now
    IN  IF body = "Sun" THEN Text(SunWarning, NoHours, <<>>)
        ELSE IF body = "Moon" THEN
            IF nowTime >= riseTime /\ nowTime <= setTime THEN
                Text("Currently visible! Best viewing: {t} (when highest in sky)",
                     NoHours, <<formatTime(transit)>>)
            ELSE IF nowTime < riseTime THEN
                Text("Will rise in {h} hours at {t}",
                     ToFixed1(riseTime - nowTime), <<formatTime(rise)>>)
            ELSE Text("Already set. Next rise: {t} tomorrow", NoHours, <<formatTime(rise)>>)
        ELSE IF nowTime >= riseTime /\ nowTime <= setTime /\ altitude > 0 THEN
            LET hoursRemaining == setTime - nowTime
            IN  IF hoursRemaining > 2 * MinutesPerHour THEN
                    Text("Currently visible! Observe within the next {h} hours. Best: {t}",
                         ToFixed1(hoursRemaining), <<formatTime(transit)>>)
                ELSE Text("Currently visible but setting soon (in {h} hours)",
                          ToFixed1(hoursRemaining), <<>>)
        ELSE IF nowTime < riseTime THEN
            LET hoursUntil == riseTime - nowTime
                riseHour == getHours(riseTime)
            IN  IF riseHour >= 20 \/ riseHour <= 4 THEN
                    Text("Morning object: Rises at {t} ({h} hours from now). Best viewing: 1-2 hours after rise.",
                         ToFixed1(hoursUntil), <<formatTime(rise)>>)
                ELSE IF riseHour >= 5 /\ riseHour <= 12 THEN
                    Text("Not visible tonight. Rises during daytime at {t}.",
                         NoHours, <<formatTime(rise)>>)
                ELSE
                    Text("Evening object: Rises at {t} ({h} hours from now). Best viewing: around {t}.",
                         ToFixed1(hoursUntil), <<formatTime(rise), formatTime(transit)>>)
        ELSE Text("Already set for today. Next visible: {t} tomorrow",
                  NoHours, <<formatTime(rise)>>)

calculateVisibilityWindowSetNow(rise, set, now) ==
    IF rise = NULL \/ set = NULL THEN Text("Not visible today", NoHours, <<>>)
    ELSE
    LET riseTime == rise[1]
        setTime == set[1]
        nowTime == now
    IN  IF nowTime < riseTime THEN
            Text("Rises in {h} hours", ToFixed1(riseTime - nowTime), <<>>)
        ELSE IF nowTime >= setTime THEN Text("Already set today", NoHours, <<>>)
        ELSE Text("Visible now, sets in {h} hours", ToFixed1(setTime - nowTime), <<>>)

calculateVisibilityWindow(rise, set, now) ==
    IF rise = NULL \/ set = NULL THEN Text("Not visible today", NoHours, <<>>)
    ELSE
    LET riseTime == rise[1]
        setTime == set[1]
        nowTime == now
    IN  IF nowTime < riseTime THEN
            Text("Rises in {h} hours", ToFixed1(riseTime - nowTime), <<>>)
        ELSE IF nowTime > setTime THEN Text("Already set today", NoHours, <<>>)
        ELSE Text("Visible now, sets in {h} hours", ToFixed1(setTime - nowTime), <<>>)

----------------------------------------------------------------------------
(* getCelestialBodyInfo.  The library's answers are the oracle o:            *)
(*   o.altitude, o.azimuth   Astronomy.Horizon                               *)
(*   o.rise, o.set, o.transit  the three searches: [st, t] with st "found"   *)
(*       (at instant t), "null" (nothing found), "throw", or "uncalled" when *)
(*       an earlier search threw and the try block was left                  *)
(*   o.illum: [st, mag, percent]  Astronomy.Illumination: st "ok" or "throw",*)
(*       percent = phase_fraction * 100 in steps of 1/IllumScale             *)

Found(t) == [st |-> "found", t |-> t]

NotFound == [st |-> "null", t |-> 0]

Throws == [st |-> "throw", t |-> 0]

Uncalled == [st |-> "uncalled", t |-> 0]

IllumOk(mag, percent) == [st |-> "ok", mag |-> mag, percent |-> percent]

IllumThrows == [st |-> "throw", mag |-> 0, percent |-> 0]

SearchThrew(o) == "throw" \in {o.rise.st, o.set.st, o.transit.st}

\* const isVisible = horizon.altitude > 0
isVisibleAboveOrOn(altitude) == altitude >= 0

isVisible(altitude) == altitude > 0

\* if (search) date = search.date, the variable being null before
SearchDate(outcome) == IF outcome.st = "found" THEN Some(outcome.t) ELSE NULL

\* The try block of the three searches and its catch: the dates found, whether the
\* catch logged an error, and whether an exception left the block.
riseSetTransitUncaught(o) ==
    [riseDate |-> SearchDate(o.rise),
     setDate |-> SearchDate(o.set),
     transitDate |-> SearchDate(o.transit),
     logged |-> FALSE,
     escaped |-> SearchThrew(o)]

riseSetTransitDependent(o) ==
    [riseDate |-> SearchDate(o.rise),
     setDate |-> SearchDate(o.set),
     transitDate |-> IF o.rise.st = "found" \/ o.set.st = "found"
                     THEN SearchDate(o.transit) ELSE NULL,
     logged |-> SearchThrew(o),
     escaped |-> FALSE]

riseSetTransit(o) ==
    [riseDate |-> SearchDate(o.rise),
     setDate |-> SearchDate(o.set),
     transitDate |-> SearchDate(o.transit),
     logged |-> SearchThrew(o),
     escaped |-> FALSE]

\* The try block of Astronomy.Illumination and its catch.
magnitudeAndPhaseAllBodies(body, o) ==
    LET illumOk == o.illum.st = "ok"
    IN  [magnitude |-> IF illumOk THEN Some(o.illum.mag) ELSE NULL,
         illumination |-> IF illumOk THEN Some(o.illum.percent) ELSE NULL,
         phaseDescription |-> IF illumOk
                              THEN Some(getMoonPhaseDescription(o.illum.percent)) ELSE NULL,
         logged |-> ~illumOk,
         escaped |-> FALSE]

magnitudeAndPhase(body, o) ==
    LET illumOk == o.illum.st = "ok"
    IN  [magnitude |-> IF illumOk THEN Some(o.illum.mag) ELSE NULL,
         illumination |-> IF illumOk /\ body = "Moon" THEN Some(o.illum.percent) ELSE NULL,
         phaseDescription |-> IF illumOk /\ body = "Moon"
                              THEN Some(getMoonPhaseDescription(o.illum.percent)) ELSE NULL,
         logged |-> ~illumOk,
         escaped |-> FALSE]

\* The result of a call: threw tells whether an exception left the function,
\* rec is the returned record and errors the logger.error calls, in order.
getCelestialBodyInfo(body, date, o) ==
    LET name == body
        search == riseSetTransit(o)
        illum == magnitudeAndPhase(body, o)
        visibilityWindow == calculateVisibilityWindow(search.riseDate, search.setDate, date)
        bestViewingTime ==
            getBestViewingTime(body, search.riseDate, search.setDate, search.transitDate,
                               date, o.altitude)
    IN  [threw |-> search.escaped \/ illum.escaped,
         errors |-> (IF search.logged THEN <<"rise/set">> ELSE <<>>)
                    \o (IF illum.logged THEN <<"illumination">> ELSE <<>>),
         rec |-> Some([name |-> name,
                       isVisible |-> isVisible(o.altitude),
                       altitude |-> o.altitude,
                       azimuth |-> o.azimuth,
                       riseTime |-> formatTime(search.riseDate),
                       setTime |-> formatTime(search.setDate),
                       transitTime |-> formatTime(search.transitDate),
                       magnitude |-> illum.magnitude,
                       illumination |-> illum.illumination,
                       visibilityWindow |-> visibilityWindow,
                       bestViewingTime |-> bestViewingTime,
                       phaseDescription |-> illum.phaseDescription])]

----------------------------------------------------------------------------
(* The oracle's answers the model draws from *)

Altitudes == MinAltitude..MaxAlt

\* Observation instants: 02:30, 11:00, 17:15 and 22:00 local time.
Nows == {150, 660, 1035, 1320}

\* Minutes from the observation instant to a found rise, set or transit.
RiseOffsets == {0, 120, 400}

SetOffsets == {0, 90, 150, 600}

TransitOffsets == {45, 300}

\* phase_fraction * 100, in steps of 1/IllumScale percent, and the magnitude.
IllumSamples == {IllumOk(0 - 12, 0), IllumOk(0 - 10, 70 * IllumScale), IllumOk(0 - 12, 100 * IllumScale)}

IllumOutcomes == IllumSamples \cup {IllumThrows}

\* SearchRiseSet answers with an instant of the next SearchDays days, or null.
InWindow(offsets) == {d \in offsets : d >= 0 /\ d <= SearchDays * MinutesPerDay}

RiseOutcomes(date) == {NotFound, Throws} \cup {Found(date + d) : d \in InWindow(RiseOffsets)}

SetOutcomes(date, rise) ==
    IF rise.st = "throw" THEN {Uncalled}
    ELSE {NotFound, Throws} \cup {Found(date + d) : d \in InWindow(SetOffsets)}

TransitOutcomes(date, set) ==
    IF set.st \in {"throw", "uncalled"} THEN {Uncalled}
    ELSE {NotFound, Throws} \cup {Found(date + d) : d \in TransitOffsets}

Oracle(alt, az, rise, set, transit, illum) ==
    [altitude |-> alt, azimuth |-> az, rise |-> rise, set |-> set,
     transit |-> transit, illum |-> illum]

Oracles(date) ==
    UNION {UNION {{Oracle(alt, 180, rise, set, transit, illum) :
                      alt \in Altitudes, transit \in TransitOutcomes(date, set),
                      illum \in IllumOutcomes} :
                  set \in SetOutcomes(date, rise)} :
           rise \in RiseOutcomes(date)}

\* The observation instant of the execute call: 17:15 local time.
ExecNows == {1035}

\* What execute's loop draws from: every altitude, with either all three searches
\* and the illumination answering, or one of them throwing.
ExecOk(date, alt) ==
    Oracle(alt, 180, Found(date + 120), Found(date + 600), Found(date + 300),
           IllumOk(0 - 10, 70 * IllumScale))

ExecSearchThrows(date, alt) ==
    Oracle(alt, 180, Found(date + 120), Throws, Uncalled, IllumOk(0 - 10, 70 * IllumScale))

ExecIllumThrows(date, alt) ==
    Oracle(alt, 180, Found(date + 120), Found(date + 600), Found(date + 300), IllumThrows)

Failing(o) == SearchThrew(o) \/ o.illum.st = "throw"

----------------------------------------------------------------------------
(* execute *)

\* The comparator passed to celestialBodies.sort.
compareAscending(a, b) ==
    IF a.isVisible /\ ~b.isVisible THEN 0 - 1
    ELSE IF ~a.isVisible /\ b.isVisible THEN 1
    ELSE a.altitude - b.altitude

compare(a, b) ==
    IF a.isVisible /\ ~b.isVisible THEN 0 - 1
    ELSE IF ~a.isVisible /\ b.isVisible THEN 1
    ELSE b.altitude - a.altitude

\* Array.prototype.sort(compare): a stable sort; insertion from the left, each
\* element moved left past the elements that compare greater than it.
RECURSIVE InsertSorted(_, _)
InsertSorted(sorted, x) ==
    IF sorted = <<>> THEN <<x>>
    ELSE IF compare(sorted[Len(sorted)], x) > 0
         THEN Append(InsertSorted(SubSeq(sorted, 1, Len(sorted) - 1), x), sorted[Len(sorted)])
         ELSE Append(sorted, x)

RECURSIVE sort(_)
sort(arr) ==
    IF arr = <<>> THEN <<>>
    ELSE InsertSorted(sort(SubSeq(arr, 1, Len(arr) - 1)), arr[Len(arr)])

\* Array.prototype.filter(b => b.isVisible && b.name !== 'Sun')
RECURSIVE currentlyVisibleWithSun(_)
currentlyVisibleWithSun(arr) ==
    IF arr = <<>> THEN <<>>
    ELSE LET rest == currentlyVisibleWithSun(Tail(arr))
         IN  IF Head(arr).isVisible THEN <<Head(arr)>> \o rest ELSE rest

RECURSIVE currentlyVisible(_)
currentlyVisible(arr) ==
    IF arr = <<>> THEN <<>>
    ELSE LET rest == currentlyVisible(Tail(arr))
         IN  IF Head(arr).isVisible /\ Head(arr).name # "Sun"
             THEN <<Head(arr)>> \o rest ELSE rest

\* The summary: a template with the count and the names it embeds (-1 and none
\* for the text that embeds neither).
SummaryText(kind, count, names) == [kind |-> kind, count |-> count, names |-> names]

NoneVisibleText ==
    "No major celestial bodies currently visible from this location. Check individual objects for their next rise times."

SomeVisibleText ==
    "Currently {n} celestial bodies visible: {names}. Check 'bestViewingTime' for optimal observation times."

makeSummary(arr) ==
    LET visible == currentlyVisible(arr)
        visibleCount == Len(visible)
        visibleNames == [i \in 1..Len(visible) |-> visible[i].name]
    IN  IF visibleCount > 0 THEN SummaryText(SomeVisibleText, visibleCount, visibleNames)
        ELSE SummaryText(NoneVisibleText, 0 - 1, <<>>)

\* The bodies that have a logged error so far.
FailedBodies(log) == {log[i][2] : i \in 1..Len(log)}

ExecChoices(date, log) ==
    {ExecOk(date, alt) : alt \in Altitudes}
    \cup (IF Cardinality(FailedBodies(log)) < MaxFailures
          THEN {ExecSearchThrows(date, alt) : alt \in Altitudes}
               \cup {ExecIllumThrows(date, alt) : alt \in Altitudes}
          ELSE {})

\* execute, up to the loop: the observation time is context.time parsed, or the
\* clock; an unparsable context.time gives an Invalid Date, and the first use of
\* it throws out of execute.
Execute ==
    /\ pc = "idle"
    /\ \E valid \in BOOLEAN, t \in ExecNows :
          IF valid
          THEN /\ pc' = "loop"
               /\ observationDate' = Some(t)
          ELSE /\ pc' = "failed"
               /\ observationDate' = NULL
    /\ UNCHANGED <<celestialBodies, summary, errorLog>>
    /\ UNCHANGED <<bodyVars, phaseVars, wfVars, viewVars, waitVars, startVars>>

\* One iteration of the for loop (each awaits getCelestialBodyInfo); the ninth
\* goes on to the sort, the summary and the return.
ExecuteLoop ==
    /\ pc = "loop"
    /\ Len(celestialBodies) < Len(Bodies)
    /\ LET body == Bodies[Len(celestialBodies) + 1]
           date == observationDate[1]
       IN  \E o \in ExecChoices(date, errorLog) :
              LET r == getCelestialBodyInfo(body, date, o)
                  pushed == Append(celestialBodies, r.rec[1])
                  sorted == sort(pushed)
              IN  /\ errorLog' = errorLog \o [i \in 1..Len(r.errors) |-> <<r.errors[i], body>>]
                  /\ IF r.threw
                     THEN /\ pc' = "failed"
                          /\ UNCHANGED <<celestialBodies, summary>>
                     ELSE IF Len(pushed) < Len(Bodies)
                     THEN /\ pc' = "loop"
                          /\ celestialBodies' = pushed
                          /\ UNCHANGED summary
                     ELSE /\ pc' = "done"
                          /\ celestialBodies' = sorted
                          /\ summary' = Some(makeSummary(sorted))
    /\ UNCHANGED observationDate
    /\ UNCHANGED <<bodyVars, phaseVars, wfVars, viewVars, waitVars, startVars>>

----------------------------------------------------------------------------
(* getCelestialBodyInfo alone *)

Calls ==
    UNION {{[body |-> body, date |-> date, o |-> o] : body \in BodyNames, o \in Oracles(date)} :
           date \in Nows}

CallGetCelestialBodyInfo ==
    /\ call # NULL
    /\ info = NULL
    /\ info' = Some(getCelestialBodyInfo(call[1].body, call[1].date, call[1].o))
    /\ UNCHANGED call
    /\ UNCHANGED <<toolVars, phaseVars, wfVars, viewVars, waitVars, startVars>>

----------------------------------------------------------------------------
(* getMoonPhaseDescription alone *)

Percentages == 0..(100 * IllumScale)

CallGetMoonPhaseDescription ==
    /\ illumIn # NULL
    /\ phaseOut = NULL
    /\ phaseOut' = Some(getMoonPhaseDescription(illumIn[1]))
    /\ UNCHANGED illumIn
    /\ UNCHANGED <<toolVars, bodyVars, wfVars, viewVars, waitVars, startVars>>

----------------------------------------------------------------------------
(* getBestViewingTime alone *)

ViewNows == {150, 1035}

\* Rise instants: one hour before now, now, and every whole hour of the next day,
\* so that the rise falls in each local hour 0..23.
ViewRises(now) ==
    {now - MinutesPerHour} \cup
    {now + k * MinutesPerHour : k \in 0..(MinutesPerDay \div MinutesPerHour)}

ViewSets(now) == {now - 30, now + 90, now + 600}

ViewTransits(now) == {now + 300}

Nullable(S) == {NULL} \cup {Some(v) : v \in S}

ViewCalls ==
    UNION {[body : BodyNames, now : {now}, altitude : Altitudes,
            rise : Nullable(ViewRises(now)), set : Nullable(ViewSets(now)),
            transit : Nullable(ViewTransits(now))] : now \in ViewNows}

CallGetBestViewingTime ==
    /\ viewIn # NULL
    /\ viewOut = NULL
    /\ viewOut' = Some(getBestViewingTime(viewIn[1].body, viewIn[1].rise, viewIn[1].set,
                                          viewIn[1].transit, viewIn[1].now, viewIn[1].altitude))
    /\ UNCHANGED viewIn
    /\ UNCHANGED <<toolVars, bodyVars, phaseVars, wfVars, waitVars, startVars>>

----------------------------------------------------------------------------
(* The workflow: .then(useCelestialAgent).then(sendTelegramReply).commit() *)

Messages == {"what is visible from 25.6, 85.1?", "hello"}

ChatIds == {111, 222}

AgentTexts == {"Jupiter is up.", ""}

\* process.env.TELEGRAM_BOT_TOKEN: unset, empty, or a token.
Tokens == {NULL, Some(""), Some("123:abc")}

Statuses == {200, 201, 299, 300, 400, 401, 429, 500}

\* The body of Telegram's response: not JSON, or JSON with or without
\* result.message_id.
ResponseBodies == {"not json", "no message_id", "message_id"}

\* Response.ok
ok(status) == status >= 200 /\ status <= 299

\* A step threw: the run ends as failed with that error, the step is not run again.
StepFailed(err) ==
    /\ wfPc' = "failed"
    /\ wfError' = Some(err)

\* The trigger: a run starts with its input data.
StartRun ==
    /\ wfPc = "idle"
    /\ \E message \in Messages, chatId \in ChatIds, token \in Tokens :
          /\ wfInput' = Some([message |-> message, threadId |-> "telegram-thread", chatId |-> chatId])
          /\ env' = token
    /\ wfPc' = "use-celestial-agent"
    /\ UNCHANGED <<agentOut, generateCalls, generated, requests, sendOut, wfError>>
    /\ UNCHANGED <<toolVars, bodyVars, phaseVars, viewVars, waitVars, startVars>>

\* How celestialAgent.generate settles: it throws, or returns { text }.
GenerateOutcomes ==
    {[threw |-> TRUE, text |-> ""]} \cup {[threw |-> FALSE, text |-> t] : t \in AgentTexts}

\* Step 1, useCelestialAgent.execute: one generate call; its text and the chat
\* id are the step's output, an exception leaves the step.
UseCelestialAgentSwallowing ==
    /\ wfPc = "use-celestial-agent"
    /\ generateCalls' = generateCalls + 1
    /\ \E g \in GenerateOutcomes :
          /\ generated' = Some(g)
          /\ agentOut' = Some([response |-> g.text, chatId |-> wfInput[1].chatId])
          /\ wfPc' = "send-telegram-reply"
          /\ UNCHANGED wfError
    /\ UNCHANGED <<wfInput, env, requests, sendOut>>
    /\ UNCHANGED <<toolVars, bodyVars, phaseVars, viewVars, waitVars, startVars>>

UseCelestialAgent ==
    /\ wfPc = "use-celestial-agent"
    /\ generateCalls' = generateCalls + 1
    /\ \E g \in GenerateOutcomes :
          /\ generated' = Some(g)
          /\ IF g.threw
             THEN /\ StepFailed("generate threw")
                  /\ UNCHANGED agentOut
             ELSE /\ agentOut' = Some([response |-> g.text, chatId |-> wfInput[1].chatId])
                  /\ wfPc' = "send-telegram-reply"
                  /\ UNCHANGED wfError
    /\ UNCHANGED <<wfInput, env, requests, sendOut>>
    /\ UNCHANGED <<toolVars, bodyVars, phaseVars, viewVars, waitVars, startVars>>

\* if (!telegramBotToken): the variable is unset or the empty string.
tokenMissingNever(token) == FALSE

tokenMissing(token) == token = NULL \/ token = Some("")

\* `${telegramBotToken}` in the URL.
tokenText(token) == IF token = NULL THEN "undefined" ELSE token[1]

\* if (!response.ok)
sendFailedOnServerError(status) == status >= 500

sendFailed(status) == ~ok(status)

\* The sendMessage request of step 2; status is the response's status, 0 when
\* fetch rejected and there is no response.
Request(token, input, status) ==
    [token |-> tokenText(token), chat_id |-> input.chatId, text |-> input.response,
     parse_mode |-> "Markdown", status |-> status]

\* How the fetch settles: it rejects, or resolves with a status and a body.
FetchOutcomes ==
    {[rejected |-> TRUE, status |-> 0, body |-> "not json"]}
    \cup {[rejected |-> FALSE, status |-> st, body |-> b] : st \in Statuses, b \in ResponseBodies}

\* Step 2, sendTelegramReply.execute: the token check, one fetch, response.json(),
\* the response.ok check, the return.
SendTelegramReplyRetrying ==
    /\ wfPc = "send-telegram-reply"
    /\ IF tokenMissing(env)
       THEN /\ StepFailed("TELEGRAM_BOT_TOKEN environment variable is not set")
            /\ UNCHANGED <<requests, sendOut>>
       ELSE \E f \in FetchOutcomes, again \in FetchOutcomes :
               IF f.rejected \/ sendFailed(f.status)
               THEN /\ requests' = requests \o <<Request(env, agentOut[1], f.status),
                                                 Request(env, agentOut[1], again.status)>>
                    /\ StepFailed("Failed to send Telegram message")
                    /\ UNCHANGED sendOut
               ELSE /\ requests' = Append(requests, Request(env, agentOut[1], f.status))
                    /\ IF f.body = "not json"
                       THEN /\ StepFailed("response.json() threw")
                            /\ UNCHANGED sendOut
                       ELSE /\ sendOut' = Some([sent |-> TRUE,
                                                messageId |-> IF f.body = "message_id"
                                                              THEN Some(7) ELSE NULL])
                            /\ wfPc' = "done"
                            /\ UNCHANGED wfError
    /\ UNCHANGED <<wfInput, env, agentOut, generateCalls, generated>>
    /\ UNCHANGED <<toolVars, bodyVars, phaseVars, viewVars, waitVars, startVars>>

SendTelegramReply ==
    /\ wfPc = "send-telegram-reply"
    /\ IF tokenMissing(env)
       THEN /\ StepFailed("TELEGRAM_BOT_TOKEN environment variable is not set")
            /\ UNCHANGED <<requests, sendOut>>
       ELSE \E f \in FetchOutcomes :
               /\ requests' = Append(requests, Request(env, agentOut[1], f.status))
               /\ IF f.rejected
                  THEN /\ StepFailed("fetch failed")
                       /\ UNCHANGED sendOut
                  ELSE IF f.body = "not json"
                  THEN /\ StepFailed("response.json() threw")
                       /\ UNCHANGED sendOut
                  ELSE IF sendFailed(f.status)
                  THEN /\ StepFailed("Failed to send Telegram message")
                       /\ UNCHANGED sendOut
                  ELSE /\ sendOut' = Some([sent |-> TRUE,
                                           messageId |-> IF f.body = "message_id"
                                                         THEN Some(7) ELSE NULL])
                       /\ wfPc' = "done"
                       /\ UNCHANGED wfError
    /\ UNCHANGED <<wfInput, env, agentOut, generateCalls, generated>>
    /\ UNCHANGED <<toolVars, bodyVars, phaseVars, viewVars, waitVars, startVars>>

----------------------------------------------------------------------------
(* scripts/start-render.js *)

\* waitForPort(port, maxAttempts = 30): the default of the parameter.
MaxAttempts == 30

otherVars == <<toolVars, bodyVars, phaseVars, wfVars, viewVars>>

\* process.exit has not been called.
Alive == parentExit = NULL

\* The continuation of main's await is queued: the promise settled and main has
\* not resumed.  Promise jobs run before the event loop delivers another event.
MicrotaskPending == mainPc = "waiting" /\ promise # "pending"

EventLoopTurn == Alive /\ ~MicrotaskPending

\* checkPort: attempts++, then http.get is issued.
checkPort ==
    /\ attempts' = attempts + 1
    /\ probe' = "inflight"
    /\ UNCHANGED <<promise, probeLog, settleCalls>>

\* resolve() or reject(): only the first call settles the promise.
settle(outcome) ==
    /\ promise' = IF promise = "pending" THEN outcome ELSE promise
    /\ settleCalls' = settleCalls + 1

attemptsExhaustedStrict(a, m) == a > m

attemptsExhausted(a, m) == a >= m

\* waitForPort called on its own: the executor runs checkPort at once.
WaitForPort ==
    /\ mainPc = "idle"
    /\ probe = "uncalled"
    /\ checkPort
    /\ UNCHANGED maxAttempts
    /\ UNCHANGED <<startVars, otherVars>>

\* The callback of http.get: the probe got a response, whatever its status.
ProbeResponse ==
    /\ EventLoopTurn
    /\ probe = "inflight"
    /\ probeLog' = Append(probeLog, "response")
    /\ settle("resolved")
    /\ probe' = "none"
    /\ UNCHANGED <<maxAttempts, attempts>>
    /\ UNCHANGED <<startVars, otherVars>>

\* req.on('error'): reject at the last attempt, else retry after 2 seconds.
ProbeError ==
    /\ EventLoopTurn
    /\ probe = "inflight"
    /\ probeLog' = Append(probeLog, "error")
    /\ IF attemptsExhausted(attempts, maxAttempts)
       THEN settle("rejected") /\ probe' = "none"
       ELSE probe' = "timer" /\ UNCHANGED <<promise, settleCalls>>
    /\ UNCHANGED <<maxAttempts, attempts>>
    /\ UNCHANGED <<startVars, otherVars>>

\* setTimeout(checkPort, 2000) fires.
CheckPortTimer ==
    /\ EventLoopTurn
    /\ probe = "timer"
    /\ checkPort
    /\ UNCHANGED maxAttempts
    /\ UNCHANGED <<startVars, otherVars>>

\* The exit code of a child: null when a signal ended it.
ExitCodes == {NULL, Some(0), Some(2)}

\* code || 1
codeOrOne(code) == IF code = NULL \/ code[1] = 0 THEN 1 ELSE code[1]

\* main up to its await: spawn the application, register its handlers, call
\* waitForPort(APP_PORT).
Main ==
    /\ mainPc = "start"
    /\ Alive
    /\ app' = "running"
    /\ spawned' = Append(spawned, "app")
    /\ maxAttempts' = MaxAttempts
    /\ checkPort
    /\ mainPc' = "waiting"
    /\ UNCHANGED <<inngest, killed, parentExit>>
    /\ UNCHANGED otherVars

MainCatchFallsThrough ==
    /\ mainPc = "waiting"
    /\ Alive
    /\ promise = "rejected"
    /\ inngest' = "running"
    /\ spawned' = Append(spawned, "inngest")
    /\ mainPc' = "running"
    /\ UNCHANGED <<app, killed, parentExit>>
    /\ UNCHANGED <<waitVars, otherVars>>

\* catch (error) { ...; process.exit(1); }
MainCatch ==
    /\ mainPc = "waiting"
    /\ Alive
    /\ promise = "rejected"
    /\ parentExit' = Some(1)
    /\ mainPc' = "exited"
    /\ UNCHANGED <<app, inngest, spawned, killed>>
    /\ UNCHANGED <<waitVars, otherVars>>

\* main after the await: spawn Inngest, register its handlers and the signal
\* handlers, return.
MainSpawnInngest ==
    /\ mainPc = "waiting"
    /\ Alive
    /\ promise = "resolved"
    /\ inngest' = "running"
    /\ spawned' = Append(spawned, "inngest")
    /\ mainPc' = "running"
    /\ UNCHANGED <<app, killed, parentExit>>
    /\ UNCHANGED <<waitVars, otherVars>>

\* app.on('error'): the child could not be spawned, killed or messaged.
AppOnError ==
    /\ EventLoopTurn
    /\ app = "running"
    /\ parentExit' = Some(1)
    /\ UNCHANGED <<mainPc, app, inngest, spawned, killed>>
    /\ UNCHANGED <<waitVars, otherVars>>

\* app.on('exit', code)
AppOnExit ==
    /\ EventLoopTurn
    /\ app = "running"
    /\ \E code \in ExitCodes :
          /\ app' = "exited"
          /\ parentExit' = Some(codeOrOne(code))
    /\ UNCHANGED <<mainPc, inngest, spawned, killed>>
    /\ UNCHANGED <<waitVars, otherVars>>

\* inngest.on('error')
InngestOnError ==
    /\ EventLoopTurn
    /\ inngest = "running"
    /\ killed' = killed \cup {"app"}
    /\ parentExit' = Some(1)
    /\ UNCHANGED <<mainPc, app, inngest, spawned>>
    /\ UNCHANGED <<waitVars, otherVars>>

\* inngest.on('exit', code)
InngestOnExit ==
    /\ EventLoopTurn
    /\ inngest = "running"
    /\ \E code \in ExitCodes :
          /\ inngest' = "exited"
          /\ killed' = killed \cup {"app"}
          /\ parentExit' = Some(codeOrOne(code))
    /\ UNCHANGED <<mainPc, app, spawned>>
    /\ UNCHANGED <<waitVars, otherVars>>

\* process.on('SIGTERM') and process.on('SIGINT'), registered when main returns:
\* both children are sent kill(), the parent goes on running.
OnSignal ==
    /\ EventLoopTurn
    /\ mainPc = "running"
    /\ killed' = killed \cup {"inngest", "app"}
    /\ UNCHANGED <<mainPc, app, inngest, spawned, parentExit>>
    /\ UNCHANGED <<waitVars, otherVars>>

----------------------------------------------------------------------------
(* Specifications *)

IdleStartup ==
    /\ maxAttempts = MaxAttempts
    /\ attempts = 0
    /\ probe = "uncalled"
    /\ promise = "pending"
    /\ probeLog = <<>>
    /\ settleCalls = 0
    /\ mainPc = "idle"
    /\ app = "none"
    /\ inngest = "none"
    /\ spawned = <<>>
    /\ killed = {}
    /\ parentExit = NULL

IdleTool ==
    /\ pc = "idle"
    /\ observationDate = NULL
    /\ celestialBodies = <<>>
    /\ summary = NULL
    /\ errorLog = <<>>

IdleBody == call = NULL /\ info = NULL

IdlePhase == illumIn = NULL /\ phaseOut = NULL

IdleWorkflow ==
    /\ wfPc = "idle"
    /\ wfInput = NULL
    /\ env = NULL
    /\ agentOut = NULL
    /\ generateCalls = 0
    /\ generated = NULL
    /\ requests = <<>>
    /\ sendOut = NULL
    /\ wfError = NULL

IdleViewing == viewIn = NULL /\ viewOut = NULL

\* One call of the visibility tool's execute.
Init == IdleTool /\ IdleBody /\ IdlePhase /\ IdleWorkflow /\ IdleViewing /\ IdleStartup

Next == Execute \/ ExecuteLoop

Spec == Init /\ [][Next]_vars

\* One call of getCelestialBodyInfo, over every body, observation instant and
\* oracle of the bounded sets.
InitBody ==
    /\ call \in {Some(c) : c \in Calls}
    /\ info = NULL
    /\ IdleTool /\ IdlePhase /\ IdleWorkflow /\ IdleViewing /\ IdleStartup

NextBody == CallGetCelestialBodyInfo

SpecBody == InitBody /\ [][NextBody]_vars

\* One call of getMoonPhaseDescription, over every percentage of the bounded set.
InitPhase ==
    /\ illumIn \in {Some(p) : p \in Percentages}
    /\ phaseOut = NULL
    /\ IdleTool /\ IdleBody /\ IdleWorkflow /\ IdleViewing /\ IdleStartup

NextPhase == CallGetMoonPhaseDescription

SpecPhase == InitPhase /\ [][NextPhase]_vars

\* One call of getBestViewingTime, over every body and every combination of the
\* bounded sets of instants, null included.
InitViewing ==
    /\ viewIn \in {Some(c) : c \in ViewCalls}
    /\ viewOut = NULL
    /\ IdleTool /\ IdleBody /\ IdlePhase /\ IdleWorkflow /\ IdleStartup

NextViewing == CallGetBestViewingTime

SpecViewing == InitViewing /\ [][NextViewing]_vars

\* One run of the workflow.
InitWorkflow == IdleWorkflow /\ IdleTool /\ IdleBody /\ IdlePhase /\ IdleViewing /\ IdleStartup

NextWorkflow == StartRun \/ UseCelestialAgent \/ SendTelegramReply

SpecWorkflow == InitWorkflow /\ [][NextWorkflow]_vars

IdleOthers == IdleTool /\ IdleBody /\ IdlePhase /\ IdleWorkflow /\ IdleViewing

\* One call of waitForPort, for every maxAttempts from 1 to the default.  Every
\* probe ends with a response or an error and every timer fires.
InitWaitForPort ==
    /\ maxAttempts \in 1..MaxAttempts
    /\ attempts = 0
    /\ probe = "uncalled"
    /\ promise = "pending"
    /\ probeLog = <<>>
    /\ settleCalls = 0
    /\ mainPc = "idle"
    /\ app = "none"
    /\ inngest = "none"
    /\ spawned = <<>>
    /\ killed = {}
    /\ parentExit = NULL
    /\ IdleOthers

NextWaitForPort == WaitForPort \/ ProbeResponse \/ ProbeError \/ CheckPortTimer

SpecWaitForPort == InitWaitForPort /\ [][NextWaitForPort]_vars /\ WF_vars(NextWaitForPort)

\* One run of the startup script.
InitStartup ==
    /\ maxAttempts = MaxAttempts
    /\ attempts = 0
    /\ probe = "uncalled"
    /\ promise = "pending"
    /\ probeLog = <<>>
    /\ settleCalls = 0
    /\ mainPc = "start"
    /\ app = "none"
    /\ inngest = "none"
    /\ spawned = <<>>
    /\ killed = {}
    /\ parentExit = NULL
    /\ IdleOthers

NextStartup ==
    \/ Main
    \/ ProbeResponse
    \/ ProbeError
    \/ CheckPortTimer
    \/ MainCatch
    \/ MainSpawnInngest
    \/ AppOnError
    \/ AppOnExit
    \/ InngestOnError
    \/ InngestOnExit
    \/ OnSignal

SpecStartup == InitStartup /\ [][NextStartup]_vars

----------------------------------------------------------------------------
(* Properties *)

\* The record and the arguments of the one getCelestialBodyInfo call of SpecBody.
Rec == info[1].rec[1]

Arg == call[1]

\* The indices of the records the summary is about.
VisibleNotSun == {i \in 1..Len(celestialBodies) :
                     celestialBodies[i].isVisible /\ celestialBodies[i].name # "Sun"}

\* C1: in the array execute returns, every visible record comes before every
\* record that is not visible, and within the visible records and within the
\* others the altitude never increases from first to last.
C1_VisibleFirstThenDescending ==
    pc = "done" =>
        \A i, j \in 1..Len(celestialBodies) :
            i < j =>
                /\ celestialBodies[j].isVisible => celestialBodies[i].isVisible
                /\ celestialBodies[i].isVisible = celestialBodies[j].isVisible
                       => celestialBodies[i].altitude >= celestialBodies[j].altitude

\* C1 witness: a returned array with a visible record and two records below the
\* horizon of different altitudes, whose order is not the order of the loop.
C1_Witness ==
    /\ pc = "done"
    /\ celestialBodies[1].isVisible
    /\ celestialBodies[1].name # "Sun"
    /\ \E i, j \in 1..Len(celestialBodies) :
          /\ i < j
          /\ ~celestialBodies[i].isVisible
          /\ celestialBodies[i].altitude > celestialBodies[j].altitude

\* C2: a search or the illumination lookup throwing for a body never fails the
\* call: execute fails only on an unparsable time, before the loop; the body
\* whose computation threw has a record with the affected fields null (the
\* transit, the last search of the try block, after a search threw; magnitude,
\* illumination and phase after the illumination lookup threw); and the returned
\* array holds a record for each of the nine bodies.
C2_FailureContained ==
    /\ pc = "failed" => observationDate = NULL /\ celestialBodies = <<>>
    /\ \A e \in 1..Len(errorLog) :
          \E k \in 1..Len(celestialBodies) :
              /\ celestialBodies[k].name = errorLog[e][2]
              /\ errorLog[e][1] = "rise/set" => celestialBodies[k].transitTime = NULL
              /\ errorLog[e][1] = "illumination" =>
                     /\ celestialBodies[k].magnitude = NULL
                     /\ celestialBodies[k].illumination = NULL
                     /\ celestialBodies[k].phaseDescription = NULL
    /\ pc = "done" =>
          /\ Len(celestialBodies) = 9
          /\ \A b \in BodyNames : \E k \in 1..Len(celestialBodies) : celestialBodies[k].name = b

\* C2 witness: execute has returned although a search threw for one body.
C2_Witness ==
    /\ pc = "done"
    /\ \E e \in 1..Len(errorLog) : errorLog[e][1] = "rise/set"

\* C3 as stated: when neither a rise nor a set is found, riseTime, setTime and
\* transitTime are all null, visibilityWindow is "Not visible today" and nothing
\* is thrown.
C3_AsStated ==
    (info # NULL /\ Arg.o.rise.st = "null" /\ Arg.o.set.st = "null") =>
        /\ ~info[1].threw
        /\ Rec.riseTime = NULL
        /\ Rec.setTime = NULL
        /\ Rec.transitTime = NULL
        /\ Rec.visibilityWindow.kind = "Not visible today"

\* C3 amended: when neither a rise nor a set is found, riseTime and setTime are
\* null, visibilityWindow is "Not visible today" and nothing is thrown;
\* transitTime is null exactly when the transit search found nothing or threw,
\* and is the formatted transit instant otherwise.
C3_RiseSetNullTransitIndependent ==
    (info # NULL /\ Arg.o.rise.st = "null" /\ Arg.o.set.st = "null") =>
        /\ ~info[1].threw
        /\ Rec.riseTime = NULL
        /\ Rec.setTime = NULL
        /\ Rec.visibilityWindow.kind = "Not visible today"
        /\ Rec.transitTime = NULL <=> Arg.o.transit.st # "found"
        /\ Arg.o.transit.st = "found" => Rec.transitTime = Some(ClockText(Arg.o.transit.t))

\* C3 witness: no rise and no set found, a transit found, and the record made.
C3_Witness ==
    /\ info # NULL
    /\ Arg.o.rise.st = "null"
    /\ Arg.o.set.st = "null"
    /\ Arg.o.transit.st = "found"
    /\ Rec.riseTime = NULL
    /\ Rec.transitTime # NULL

C5_SendOnlyAfterGenerate ==
    requests # <<>> =>
        /\ generated # NULL
        /\ ~generated[1].threw
        /\ \A r \in 1..Len(requests) : requests[r].text = generated[1].text

\* C5 witness: a request issued in a run whose generate call returned.
C5_Witness ==
    /\ requests # <<>>
    /\ generated # NULL
    /\ ~generated[1].threw

\* C6: when TELEGRAM_BOT_TOKEN is not set and the send step has run, the run
\* has failed with the configuration error, no request was made and the step
\* returned nothing.
C6_NoTokenNoRequest ==
    (env = NULL /\ wfPc \in {"send-telegram-reply", "done", "failed"}) =>
        /\ requests = <<>>
        /\ sendOut = NULL
        /\ wfPc # "done"
        /\ (agentOut # NULL /\ wfPc = "failed") =>
               wfError = Some("TELEGRAM_BOT_TOKEN environment variable is not set")

\* C6 witness: the send step has run without a token and failed.
C6_Witness ==
    /\ env = NULL
    /\ agentOut # NULL
    /\ wfPc = "failed"
    /\ requests = <<>>

\* C7: the send step returns sent: true only when the response's status is 2xx;
\* after a response with any other status the step has failed and returned nothing.
C7_SentOnly2xx ==
    /\ sendOut # NULL =>
          /\ sendOut[1].sent
          /\ Len(requests) = 1
          /\ requests[1].status >= 200 /\ requests[1].status <= 299
    /\ \A r \in 1..Len(requests) :
          (requests[r].status # 0 /\ ~(requests[r].status >= 200 /\ requests[r].status <= 299)) =>
              /\ sendOut = NULL
              /\ wfPc = "failed"
              /\ wfError # NULL

\* C7 witness: a non-2xx response with a JSON body, and the step failed on it.
C7_Witness ==
    /\ requests # <<>>
    /\ requests[1].status = 400
    /\ wfError = Some("Failed to send Telegram message")

\* C8: in one run generate is invoked at most once and at most one sendMessage
\* request is issued; after generate throws, after fetch rejects or after a
\* non-2xx response the run is failed, and a failed run takes no further step.
C8_NoRetry ==
    /\ generateCalls <= 1
    /\ Len(requests) <= 1
    /\ (generated # NULL /\ generated[1].threw) => wfPc = "failed"
    /\ \A r \in 1..Len(requests) :
          ~(requests[r].status >= 200 /\ requests[r].status <= 299) => wfPc = "failed"
    /\ wfPc = "failed" =>
          /\ wfError # NULL
          /\ sendOut = NULL
          /\ ~ENABLED (StartRun \/ UseCelestialAgent \/ SendTelegramReply)

\* C8 witness: a run failed by a rejected fetch, after one generate call and one request.
C8_Witness ==
    /\ wfPc = "failed"
    /\ generateCalls = 1
    /\ Len(requests) = 1
    /\ requests[1].status = 0

\* C9: getMoonPhaseDescription returns a label for every percentage p of
\* [0,100], the one of the bands p<1 New Moon, 1<=p<25 Waxing Crescent,
\* 25<=p<35 First Quarter, 35<=p<65 Waxing Gibbous, 65<=p<75 Full Moon,
\* 75<=p<85 Waning Gibbous, 85<=p<99 Waning Crescent, p>=99 Full Moon.
C9_PhaseBands ==
    /\ illumIn # NULL /\ phaseOut = NULL => ENABLED CallGetMoonPhaseDescription
    /\ phaseOut # NULL =>
          LET p == illumIn[1]
              label == phaseOut[1]
          IN  /\ p < 1 * IllumScale => label = "New Moon"
              /\ (1 * IllumScale <= p /\ p < 25 * IllumScale) => label = "Waxing Crescent"
              /\ (25 * IllumScale <= p /\ p < 35 * IllumScale) => label = "First Quarter"
              /\ (35 * IllumScale <= p /\ p < 65 * IllumScale) => label = "Waxing Gibbous"
              /\ (65 * IllumScale <= p /\ p < 75 * IllumScale) => label = "Full Moon"
              /\ (75 * IllumScale <= p /\ p < 85 * IllumScale) => label = "Waning Gibbous"
              /\ (85 * IllumScale <= p /\ p < 99 * IllumScale) => label = "Waning Crescent"
              /\ 99 * IllumScale <= p => label = "Full Moon"

\* C9 witness: a percentage of the 65-75 band, below 99, labelled Full Moon.
C9_Witness ==
    /\ phaseOut = Some("Full Moon")
    /\ illumIn[1] >= 65 * IllumScale
    /\ illumIn[1] < 75 * IllumScale

\* C10: the summary leaves the Sun out: the count it states is the number of
\* visible records other than the Sun, the names it lists are those records'
\* names in the order of the returned array, and with no such record it is the
\* "No major celestial bodies currently visible" text, the Sun visible or not.
C10_SummaryExcludesSun ==
    pc = "done" =>
        /\ summary # NULL
        /\ IF VisibleNotSun = {}
           THEN summary[1].kind = NoneVisibleText
           ELSE /\ summary[1].kind = SomeVisibleText
                /\ summary[1].count = Cardinality(VisibleNotSun)
                /\ Len(summary[1].names) = Cardinality(VisibleNotSun)
                /\ \A i \in VisibleNotSun :
                      summary[1].names[Cardinality({j \in VisibleNotSun : j <= i})]
                          = celestialBodies[i].name

\* C10 witness: the Sun is the only visible body and the summary says none is.
C10_Witness ==
    /\ pc = "done"
    /\ celestialBodies[1].name = "Sun"
    /\ celestialBodies[1].isVisible
    /\ VisibleNotSun = {}
    /\ summary[1].kind = NoneVisibleText

\* C11: the array execute returns holds exactly nine records, one for each of
\* Sun, Moon, Mercury, Venus, Mars, Jupiter, Saturn, Uranus and Neptune, each
\* name exactly once, visible or not.
C11_NineBodiesEachOnce ==
    pc = "done" =>
        /\ Len(celestialBodies) = 9
        /\ \A b \in {"Sun", "Moon", "Mercury", "Venus", "Mars", "Jupiter", "Saturn",
                     "Uranus", "Neptune"} :
              Cardinality({k \in 1..Len(celestialBodies) : celestialBodies[k].name = b}) = 1

\* C11 witness: a returned array that the sort has permuted, holding visible
\* records and records that are not visible.
C11_Witness ==
    /\ pc = "done"
    /\ celestialBodies[1].name = "Neptune"
    /\ celestialBodies[1].isVisible
    /\ ~celestialBodies[9].isVisible
    /\ celestialBodies[9].name = "Sun"

\* C13: in every record, illumination and phaseDescription are non-null only
\* for the Moon; for the Moon they are both null, the illumination lookup having
\* thrown, or both non-null, illumination being phase_fraction * 100 and
\* phaseDescription the label getMoonPhaseDescription gives it.
C13_IlluminationMoonOnly ==
    info # NULL =>
        /\ (Rec.illumination # NULL \/ Rec.phaseDescription # NULL) => Rec.name = "Moon"
        /\ Rec.name = "Moon" =>
              IF Arg.o.illum.st = "throw"
              THEN Rec.illumination = NULL /\ Rec.phaseDescription = NULL
              ELSE /\ Rec.illumination = Some(Arg.o.illum.percent)
                   /\ Rec.phaseDescription # NULL
                   /\ Rec.phaseDescription[1] = getMoonPhaseDescription(Rec.illumination[1])

\* C13 witness: a record of the Moon with its illumination and its phase label.
C13_Witness ==
    /\ info # NULL
    /\ Rec.name = "Moon"
    /\ Rec.illumination = Some(70 * IllumScale)
    /\ Rec.phaseDescription = Some("Full Moon")

\* C14 as stated: in a record made with both a rise and a set found,
\* visibilityWindow is the "Visible now" text exactly when isVisible is true.
C14_VisibleNowIffVisible ==
    (info # NULL /\ Arg.o.rise.st = "found" /\ Arg.o.set.st = "found") =>
        (Rec.visibilityWindow.kind = "Visible now, sets in {h} hours" <=> Rec.isVisible)

\* C15: the searches answering only with instants at or after the observation
\* instant, visibilityWindow is never "Already set today": it is "Not visible
\* today", "Rises in N hours" or "Visible now, sets in N hours", the last only
\* when the rise found is the observation instant itself.
C15_NeverAlreadySet ==
    info # NULL =>
        /\ Rec.visibilityWindow.kind # "Already set today"
        /\ Rec.visibilityWindow.kind \in
               {"Not visible today", "Rises in {h} hours", "Visible now, sets in {h} hours"}
        /\ Rec.visibilityWindow.kind = "Visible now, sets in {h} hours" =>
               /\ Arg.o.rise.st = "found"
               /\ Arg.o.rise.t = Arg.date

\* C15 witness: a rise found at the observation instant, a set at that same
\* instant, and the "Visible now" text.
C15_Witness ==
    /\ info # NULL
    /\ Arg.o.rise = Found(Arg.date)
    /\ Arg.o.set = Found(Arg.date)
    /\ Rec.visibilityWindow.kind = "Visible now, sets in {h} hours"

\* The bestViewingTime templates that embed formatTime(transit).
EmbedsTransit ==
    {"Currently visible! Best viewing: {t} (when highest in sky)",
     "Currently visible! Observe within the next {h} hours. Best: {t}",
     "Evening object: Rises at {t} ({h} hours from now). Best viewing: around {t}."}

\* C16 as stated: when bestViewingTime embeds the transit time, a transit was
\* found: transitTime is non-null and the embedded time is not null.
C16_EmbeddedTransitFound ==
    (info # NULL /\ Rec.bestViewingTime.kind \in EmbedsTransit) =>
        /\ Rec.transitTime # NULL
        /\ Rec.bestViewingTime.times[Len(Rec.bestViewingTime.times)] # NULL

----------------------------------------------------------------------------
(* C12, C17: getBestViewingTime alone *)

\* C12: for the Sun, getBestViewingTime returns the safety warning for every
\* combination of now, altitude, rise, set and transit, null included.
C12_SunAlwaysWarned ==
    (viewOut # NULL /\ viewIn[1].body = "Sun") => viewOut[1].kind = SunWarning

\* C17: for a planet with rise and set found and now strictly before the rise,
\* the label is decided by the local hour h of the rise alone: "Morning object"
\* exactly when h >= 20 or h <= 4, "Not visible tonight. Rises during daytime"
\* exactly when 5 <= h <= 12, "Evening object" exactly when 13 <= h <= 19; the
\* three cases cover 0..23 and exclude one another.
RiseHourLabels ==
    [morning |-> "Morning object: Rises at {t} ({h} hours from now). Best viewing: 1-2 hours after rise.",
     daytime |-> "Not visible tonight. Rises during daytime at {t}.",
     evening |-> "Evening object: Rises at {t} ({h} hours from now). Best viewing: around {t}."]

PlanetBeforeRise ==
    /\ viewOut # NULL
    /\ viewIn[1].body \notin {"Sun", "Moon"}
    /\ viewIn[1].rise # NULL
    /\ viewIn[1].set # NULL
    /\ viewIn[1].now < viewIn[1].rise[1]

C17_RiseHourLabel ==
    PlanetBeforeRise =>
        LET h == (viewIn[1].rise[1] % MinutesPerDay) \div MinutesPerHour
            label == viewOut[1].kind
        IN  /\ h \in 0..23
            /\ label \in {RiseHourLabels.morning, RiseHourLabels.daytime, RiseHourLabels.evening}
            /\ label = RiseHourLabels.morning <=> (h >= 20 \/ h <= 4)
            /\ label = RiseHourLabels.daytime <=> (h >= 5 /\ h <= 12)
            /\ label = RiseHourLabels.evening <=> (h >= 13 /\ h <= 19)

\* A planet rising at 12:30, the last hour of the daytime band.
C17_Witness ==
    /\ PlanetBeforeRise
    /\ viewIn[1].body = "Jupiter"
    /\ (viewIn[1].rise[1] % MinutesPerDay) \div MinutesPerHour = 12
    /\ viewOut[1].kind = RiseHourLabels.daytime

----------------------------------------------------------------------------
(* C18, C19, C20: scripts/start-render.js *)

\* The number of http.get requests issued so far.
ProbesIssued == Len(probeLog) + (IF probe = "inflight" THEN 1 ELSE 0)

PortAnswered == probeLog # <<>> /\ probeLog[Len(probeLog)] = "response"

\* C18: the application is spawned first; Inngest is spawned only after a probe
\* of the application's port got a response; when waitForPort rejects, main
\* exits with code 1 and Inngest is never spawned.
C18_AppFirstInngestAfterPort ==
    /\ spawned \in {<<>>, <<"app">>, <<"app", "inngest">>}
    /\ (inngest # "none" \/ spawned = <<"app", "inngest">>) =>
          (promise = "resolved" /\ PortAnswered)
    /\ promise = "rejected" =>
          /\ inngest = "none"
          /\ spawned = <<"app">>
          /\ mainPc \in {"waiting", "exited"}
          /\ mainPc = "exited" => parentExit = Some(1)
          /\ mainPc = "waiting" => ~ENABLED (NextStartup /\ ~MainCatch)

\* Inngest running after the port answered at the third probe.
C18_Witness ==
    /\ spawned = <<"app", "inngest">>
    /\ inngest = "running"
    /\ probeLog = <<"error", "error", "response">>
    /\ parentExit = NULL

C19_Safety ==
    /\ settleCalls <= 1
    /\ promise # "pending" <=> settleCalls = 1
    /\ ProbesIssued <= maxAttempts
    /\ \A k \in 1..Len(probeLog) : probeLog[k] = "response" => k = Len(probeLog)
    /\ promise = "resolved" <=> PortAnswered
    /\ promise = "rejected" <=>
          (Len(probeLog) = maxAttempts /\ \A k \in 1..Len(probeLog) : probeLog[k] = "error")
    /\ promise # "pending" => probe = "none"

\* C19: when every probe ends with a response or an error, waitForPort settles
\* exactly once: resolved at the first probe that got a response, rejected
\* exactly when maxAttempts probes in a row errored; at most maxAttempts probes
\* are issued and none after the promise settled.
C19_SettlesExactlyOnce == [](C19_Safety) /\ <>[](settleCalls = 1)

\* Resolved at the last allowed probe, after two errors.
C19_Witness ==
    /\ maxAttempts = 3
    /\ probeLog = <<"error", "error", "response">>
    /\ promise = "resolved"
    /\ settleCalls = 1

\* C20: once both children were running, a parent that exited on a child's exit
\* has sent kill to the other child.
C20_OtherChildKilled ==
    (parentExit # NULL /\ spawned = <<"app", "inngest">>) =>
        /\ app = "exited" => "inngest" \in killed
        /\ inngest = "exited" => "app" \in killed

====
